---- MODULE Spec2Model ----
(***************************************************************************)
(* State-machine model of htm.py, the spatial-pooler sketch: Synapse and   *)
(* Column objects, the three phase functions findOverlap,                  *)
(* findActiveColumns and learnAndInhibit, and the module-level log         *)
(* ACTIVE_COLUMNS.                                                         *)
(*                                                                         *)
(* Numbers.  Permanences are floats in the source; here they are fixed     *)
(* point, counted in twentieths (0.05), so 1.0 is 20, PERMANENCE_INC (0.1) *)
(* is 2, PERMANENCE_DEC (0.05) is 1 and CONNECTED_PERM (0.2) is 4.         *)
(* Overlaps and boosts are small integers (input bits are 0 or 1).         *)
(*                                                                         *)
(* Names the source calls but never defines (kthScore, getNeighbors,       *)
(* Synapse.getSourcetInput, Column.getSynapses) are modelled from the      *)
(* specification of the repository; they are marked where they occur.      *)
(***************************************************************************)
EXTENDS Integers, Sequences, FiniteSets, TLC

\* ---------------------------------------------------------------- constants
PERMANENCE_INC == 2
PERMANENCE_DEC == 1
CONNECTED_PERM == 4
\* 1.0, the upper clamp of incPerm
PermOne == 20
\* 0.0, the lower clamp of decPerm and the value of Synapse.__init__
PermZero == 0
\* Column.__init__: boost = 1.0, overlap = 0.0
DefaultBoost == 1
DefaultOverlap == 0

\* ------------------------------------------------------------------- bounds
\* timesteps are 0..MaxT
MaxT == 1
\* the input vector of a timestep has InputLen bits, indexed from 0
InputLen == 2
\* arguments of setPermanence reach PermSlack twentieths outside [0.0, 1.0]
PermSlack == 1
\* largest explicit argument of incPerm / decPerm
MaxDelta == 3
\* arguments of setOverlap are 0..MaxOverlap
MaxOverlap == 3
\* arguments of setBoost are 1..MaxBoost
MaxBoost == 2
\* arguments minOverlap of findOverlap are 0..MaxMinOverlap
MaxMinOverlap == 2
\* the region is a line of columns; neighbours are within this distance
InhibitionRadius == 1

\* ----------------------------------------------------------------- topology
\* the region's columns, in list order, and the synapse objects
Columns == <<1, 2, 3>>
Cols == {Columns[i] : i \in 1..Len(Columns)}
Syn == {1, 2}
T == 0..MaxT

Range(seq) == {seq[i] : i \in 1..Len(seq)}

Min(a, b) == IF a < b THEN a ELSE b
Max(a, b) == IF a > b THEN a ELSE b

VARIABLES
  synapses,        \* Column.synapses : column -> list of synapse objects
  inputIndex,      \* Synapse.inputIndex
  permanence,      \* Synapse.permanence
  isactive,        \* Synapse.isactive
  boost,           \* Column.boost
  overlap,         \* Column.overlap
  ACTIVE_COLUMNS,  \* the module-level dict: timestep -> list of columns
  input,           \* the input vector of every timestep
  last,            \* the call that produced this state
  pc,              \* position of the per-timestep driver
  cyc              \* the driver's timestep: its arguments and start snapshot

vars == <<synapses, inputIndex, permanence, isactive, boost, overlap,
          ACTIVE_COLUMNS, input, last, pc, cyc>>

\* ------------------------------------------------------------------ wirings
\* Column.__init__ leaves synapses = []; a collaborator wires columns to the
\* input space before the pooler runs.  Three wirings are considered.
Unwired == [c \in Cols |-> <<>>]
Wired == [c \in Cols |-> IF c = 2 THEN <<1, 2>> ELSE <<>>]
\* both source indices inside the input vector
IndexInRange == [s \in Syn |-> s - 1]
\* synapse 2 reads one past the end of the input vector
IndexOutOfRange == [s \in Syn |-> IF s = 1 THEN 0 ELSE InputLen]

\* input vectors: bit i of timestep t under pattern p
InputPattern(p) == [t \in T |-> [i \in 0..(InputLen - 1) |-> (i + t + p) % 2]]

\* ------------------------------------------------------------------ history
\* err is "none" when the call returned, else the exception it raised
\* run is 2 when the call repeats the call before it, with the same arguments
Call(op, t, k, cols, err) ==
  [op |-> op, t |-> t, k |-> k, cols |-> cols, err |-> err,
   run |-> IF last.op = op /\ last.t = t /\ last.k = k /\ last.cols = cols
             THEN 2 ELSE 1]
NoCall == [op |-> "none", t |-> 0, k |-> 0, cols |-> <<>>, err |-> "none", run |-> 1]

\* ------------------------------------------------------------------ Synapse
\* Synapse.isConnnected (the method the source defines; getConnectedSynapses
\* calls it as isConnected)
isConnnected(perm) == perm > CONNECTED_PERM

\* Synapse.setPermanence: stores the argument as it is
setPermanenceValue(old, perm) == perm

incPermMissingClamp(p, inc) == p + inc
\* Synapse.incPerm
incPermValue(p, inc) == IF p + inc > PermOne THEN PermOne ELSE p + inc

decPermMissingClamp(p, dec) == p - dec
\* Synapse.decPerm
decPermValue(p, dec) == IF p - dec < PermZero THEN PermZero ELSE p - dec

PermArgs == {0 - PermSlack, PermZero, CONNECTED_PERM, CONNECTED_PERM + 1,
             PermOne - 1, PermOne, PermOne + PermSlack}
IncArgs == {PERMANENCE_INC, MaxDelta}
DecArgs == {PERMANENCE_DEC, MaxDelta}

SynapseObjects == UNION {Range(synapses[c]) : c \in Cols}

UnchangedPooler == UNCHANGED <<synapses, inputIndex, boost, overlap,
                               ACTIVE_COLUMNS, input>>

setPermanence(s, perm) ==
  /\ s \in SynapseObjects
  /\ permanence' = [permanence EXCEPT ![s] = setPermanenceValue(@, perm)]
  /\ last' = Call("setPermanence", 0, 0, <<>>, "none")
  /\ UNCHANGED isactive
  /\ UnchangedPooler

incPerm(s, inc) ==
  /\ s \in SynapseObjects
  /\ permanence' = [permanence EXCEPT ![s] = incPermValue(@, inc)]
  /\ last' = Call("incPerm", 0, 0, <<>>, "none")
  /\ UNCHANGED isactive
  /\ UnchangedPooler

decPerm(s, dec) ==
  /\ s \in SynapseObjects
  /\ permanence' = [permanence EXCEPT ![s] = decPermValue(@, dec)]
  /\ last' = Call("decPerm", 0, 0, <<>>, "none")
  /\ UNCHANGED isactive
  /\ UnchangedPooler

setActive(s, active) ==
  /\ s \in SynapseObjects
  /\ isactive' = [isactive EXCEPT ![s] = active]
  /\ last' = Call("setActive", 0, 0, <<>>, "none")
  /\ UNCHANGED permanence
  /\ UnchangedPooler

\* ------------------------------------------------------------------- Column
SynapseUnchanged == UNCHANGED <<synapses, inputIndex, permanence, isactive,
                                input>>

BoostArgs == 1..MaxBoost
OverlapArgs == 0..MaxOverlap

\* Column.setBoost
setBoost(c, b) ==
  /\ boost' = [boost EXCEPT ![c] = b]
  /\ last' = Call("setBoost", 0, 0, <<>>, "none")
  /\ UNCHANGED <<overlap, ACTIVE_COLUMNS>>
  /\ SynapseUnchanged

setOverlapKeepsOld(old) == old
\* Column.setOverlap() with its default argument, 0.0
setOverlapDefault(old) == DefaultOverlap

\* Column.setOverlap
setOverlap(c, o) ==
  /\ overlap' = [overlap EXCEPT ![c] = o]
  /\ last' = Call("setOverlap", 0, 0, <<>>, "none")
  /\ UNCHANGED <<boost, ACTIVE_COLUMNS>>
  /\ SynapseUnchanged

boostOverlapTwice(ov, b) == (ov * b) * b
\* Column.boostOverlap: overlap *= boost
boostOverlapValue(ov, b) == ov * b

\* Python values handed around by getConnectedSynapses
BoolObject(b) == [type |-> "bool", id |-> 0, value |-> b]
SynapseObject(s) == [type |-> "Synapse", id |-> s, value |-> FALSE]

\* Column.getConnectedSynapses: map( lambda x: x.isConnected(), self.synapses ),
\* one boolean per synapse, in list order
getConnectedSynapses(c) ==
  [i \in 1..Len(synapses[c]) |-> BoolObject(isConnnected(permanence[synapses[c][i]]))]

\* Column.getSynapses (called by learnAndInhibit, not defined in the source):
\* the column's proximal synapses
getSynapses(c) == synapses[c]

\* -------------------------------------------------------------- findOverlap
\* Synapse.getSourcetInput (called by findOverlap, not defined in the source):
\* the input bit of timestep t at the synapse's source index, or an
\* out-of-range error
getSourcetInput(s, t) ==
  IF inputIndex[s] \in DOMAIN input[t]
    THEN [err |-> "none", bit |-> input[t][inputIndex[s]]]
    ELSE [err |-> "OutOfRangeError", bit |-> 0]

callSwallowsErrors(obj, t) ==
  IF obj.type = "Synapse" /\ inputIndex[obj.id] \in DOMAIN input[t]
    THEN [err |-> "none", bit |-> input[t][inputIndex[obj.id]]]
    ELSE [err |-> "none", bit |-> 0]
\* s.getSourcetInput( t ) on an element of getConnectedSynapses(): only a
\* Synapse has the method, a bool raises AttributeError
callGetSourcetInput(obj, t) ==
  IF obj.type = "Synapse"
    THEN getSourcetInput(obj.id, t)
    ELSE [err |-> "AttributeError", bit |-> 0]

\* the inner loop of findOverlap: c.setOverlap( c.getOverlap() + ... ), which
\* stops at the first exception with the sum so far left in the column
RECURSIVE sumSourceInputs(_, _, _)
sumSourceInputs(objs, acc, t) ==
  IF objs = <<>>
    THEN [err |-> "none", overlap |-> acc]
    ELSE LET r == callGetSourcetInput(Head(objs), t)
         IN IF r.err # "none"
              THEN [err |-> r.err, overlap |-> acc]
              ELSE sumSourceInputs(Tail(objs), acc + r.bit, t)

\* the body of findOverlap's loop for one column whose overlap was old
findOverlapColumn(c, old, t, minOverlap) ==
  LET r == sumSourceInputs(getConnectedSynapses(c), setOverlapDefault(old), t)
  IN IF r.err # "none"
       THEN r
       ELSE [err |-> "none",
             overlap |-> IF r.overlap < minOverlap
                           THEN setOverlapDefault(r.overlap)
                           ELSE boostOverlapValue(r.overlap, boost[c])]

\* findOverlap's loop over columns, from overlaps ov; an exception ends it
RECURSIVE findOverlapRun(_, _, _, _)
findOverlapRun(cols, ov, t, minOverlap) ==
  IF cols = <<>>
    THEN [err |-> "none", overlap |-> ov]
    ELSE LET c == Head(cols)
             r == findOverlapColumn(c, ov[c], t, minOverlap)
             ov2 == [ov EXCEPT ![c] = r.overlap]
         IN IF r.err # "none"
              THEN [err |-> r.err, overlap |-> ov2]
              ELSE findOverlapRun(Tail(cols), ov2, t, minOverlap)

MinOverlapArgs == 0..MaxMinOverlap

\* findOverlap( columns, t, minOverlap )
findOverlap(t, minOverlap) ==
  LET r == findOverlapRun(Columns, overlap, t, minOverlap)
  IN /\ overlap' = r.overlap
     /\ last' = Call("findOverlap", t, minOverlap, <<>>, r.err)
     /\ UNCHANGED <<boost, ACTIVE_COLUMNS>>
     /\ SynapseUnchanged

\* -------------------------------------------------------- findActiveColumns
Abs(x) == IF x < 0 THEN 0 - x ELSE x

\* getNeighbors (called by findActiveColumns, not defined in the source): the
\* columns within InhibitionRadius of c on the line, c itself among them
getNeighbors(c) == {d \in Cols : Abs(d - c) <= InhibitionRadius}

\* kthScore (called by findActiveColumns, not defined in the source): the
\* k-th largest overlap, counted from 1, among the columns nbrs
RECURSIVE kthScore(_, _, _)
kthScore(ov, nbrs, k) ==
  LET m == CHOOSE c \in nbrs : \A d \in nbrs : ov[d] <= ov[c]
  IN IF k <= 1 THEN ov[m] ELSE kthScore(ov, nbrs \ {m}, k - 1)

isSelectedStrict(ov, c, k) ==
  /\ ov[c] > 0
  /\ ov[c] > kthScore(ov, getNeighbors(c), k)
isSelectedReversed(ov, c, k) ==
  /\ ov[c] > 0
  /\ ov[c] <= kthScore(ov, getNeighbors(c), k)
\* the test findActiveColumns applies to one column
isSelected(ov, c, k) ==
  /\ ov[c] > 0
  /\ ov[c] >= kthScore(ov, getNeighbors(c), k)

\* the list activeColumns that findActiveColumns builds
activeColumnsOf(ov, k) == SelectSeq(Columns, LAMBDA c : isSelected(ov, c, k))

\* kthScore is defined for k up to the size of the neighbourhood
MinNeighborhood ==
  CHOOSE n \in 1..Len(Columns) :
    /\ \E c \in Cols : Cardinality(getNeighbors(c)) = n
    /\ \A c \in Cols : Cardinality(getNeighbors(c)) >= n
ActivityArgs == 1..MinNeighborhood

dictKeepsFirst(dict, key, value) ==
  IF key \in DOMAIN dict
    THEN dict
    ELSE [x \in (DOMAIN dict) \cup {key} |-> IF x = key THEN value ELSE dict[x]]
\* dict[key] = value
dictSet(dict, key, value) ==
  [x \in (DOMAIN dict) \cup {key} |-> IF x = key THEN value ELSE dict[x]]

\* findActiveColumns( columns, t, desiredLocalActivity )
findActiveColumns(t, k) ==
  /\ ACTIVE_COLUMNS' = dictSet(ACTIVE_COLUMNS, t, activeColumnsOf(overlap, k))
  /\ last' = Call("findActiveColumns", t, k, <<>>, "none")
  /\ UNCHANGED <<boost, overlap>>
  /\ SynapseUnchanged

\* ---------------------------------------------------------- learnAndInhibit
learnValueSwapped(p, active) ==
  IF active THEN decPermValue(p, PERMANENCE_DEC) ELSE incPermValue(p, PERMANENCE_INC)
\* if s.isActive(): s.incPerm() else: s.decPerm()
learnValue(p, active) ==
  IF active THEN incPermValue(p, PERMANENCE_INC) ELSE decPermValue(p, PERMANENCE_DEC)

\* the inner loop of learnAndInhibit over one column's synapses
RECURSIVE learnSynapses(_, _)
learnSynapses(syns, perm) ==
  IF syns = <<>>
    THEN perm
    ELSE LET s == Head(syns)
         IN learnSynapses(Tail(syns),
                          [perm EXCEPT ![s] = learnValue(@, isactive[s])])

\* the outer loop of learnAndInhibit over the list activeColumns
RECURSIVE learnColumns(_, _)
learnColumns(cols, perm) ==
  IF cols = <<>>
    THEN perm
    ELSE learnColumns(Tail(cols), learnSynapses(getSynapses(Head(cols)), perm))

\* the lists of columns a caller passes: columns in region order, none twice
ColumnLists == {SelectSeq(Columns, LAMBDA c : c \in S) : S \in SUBSET Cols}

\* learnAndInhibit( activeColumns, t )
learnAndInhibit(activeColumns, t) ==
  /\ permanence' = learnColumns(activeColumns, permanence)
  /\ last' = Call("learnAndInhibit", t, 0, activeColumns, "none")
  /\ UNCHANGED isactive
  /\ UnchangedPooler

\* ------------------------------------------------------- the timestep driver
\* The source has no caller of its three phase functions.  The driver below is
\* the per-timestep control flow of the repository's specification: overlap,
\* then selection, then learning on the columns recorded for the timestep; an
\* exception leaves the driver (nothing in the phase functions catches one).
NoCycle == [t |-> 0, minOverlap |-> 0, k |-> 1, perm0 |-> <<>>]

BeginTimestep(t, minOverlap, k) ==
  /\ pc \in {"idle", "aborted"}
  /\ t \notin DOMAIN ACTIVE_COLUMNS
  /\ pc' = "overlap"
  /\ cyc' = [t |-> t, minOverlap |-> minOverlap, k |-> k, perm0 |-> permanence]
  /\ UNCHANGED <<synapses, inputIndex, permanence, isactive, boost, overlap,
                 ACTIVE_COLUMNS, input, last>>

PhaseOverlap ==
  /\ pc = "overlap"
  /\ findOverlap(cyc.t, cyc.minOverlap)
  /\ pc' = IF last'.err # "none" THEN "aborted" ELSE "select"
  /\ UNCHANGED cyc

PhaseSelect ==
  /\ pc = "select"
  /\ findActiveColumns(cyc.t, cyc.k)
  /\ pc' = "learn"
  /\ UNCHANGED cyc

PhaseLearn ==
  /\ pc = "learn"
  /\ learnAndInhibit(ACTIVE_COLUMNS[cyc.t], cyc.t)
  /\ pc' = "idle"
  /\ UNCHANGED cyc

\* ------------------------------------------------------------ initial states
\* the permanences a wiring gives its synapses: at the threshold, just above it
WiredPerms == {CONNECTED_PERM, CONNECTED_PERM + 1}

Constructed(wiring, index, perm, p) ==
  /\ synapses = wiring
  /\ inputIndex = index
  /\ permanence = perm
  /\ isactive = [s \in Syn |-> FALSE]
  /\ boost = [c \in Cols |-> DefaultBoost]
  /\ overlap = [c \in Cols |-> DefaultOverlap]
  /\ ACTIVE_COLUMNS = <<>>
  /\ input = InputPattern(p)
  /\ last = NoCall
  /\ pc = "idle"
  /\ cyc = NoCycle

\* Synapse objects as Synapse.__init__ leaves them
InitSynapse ==
  \E p \in 0..1 : Constructed(Wired, IndexInRange, [s \in Syn |-> PermZero], p)

InitWired ==
  \E index \in {IndexInRange, IndexOutOfRange}, perm \in [Syn -> WiredPerms],
     p \in 0..1 :
    Constructed(Wired, index, perm, p)

InitUnwired ==
  \E p \in 0..1 : Constructed(Unwired, IndexInRange, [s \in Syn |-> PermZero], p)

\* ------------------------------------------------------------ specifications
\* the Synapse methods and the learning phase
NextSynapse ==
  \/ \E s \in Syn, perm \in PermArgs : setPermanence(s, perm) /\ UNCHANGED <<pc, cyc>>
  \/ \E s \in Syn, inc \in IncArgs : incPerm(s, inc) /\ UNCHANGED <<pc, cyc>>
  \/ \E s \in Syn, dec \in DecArgs : decPerm(s, dec) /\ UNCHANGED <<pc, cyc>>
  \/ \E s \in Syn, b \in BOOLEAN : setActive(s, b) /\ UNCHANGED <<pc, cyc>>
  \/ \E ac \in ColumnLists, t \in T : learnAndInhibit(ac, t) /\ UNCHANGED <<pc, cyc>>

SpecSynapse == InitSynapse /\ [][NextSynapse]_vars

\* the Column setters and the overlap phase
NextOverlap ==
  \/ \E c \in Cols, b \in BoostArgs : setBoost(c, b) /\ UNCHANGED <<pc, cyc>>
  \/ \E c \in Cols, o \in OverlapArgs : setOverlap(c, o) /\ UNCHANGED <<pc, cyc>>
  \/ \E t \in T, m \in MinOverlapArgs : findOverlap(t, m) /\ UNCHANGED <<pc, cyc>>

SpecOverlap == (InitWired \/ InitUnwired) /\ [][NextOverlap]_vars

\* Column.setOverlap and the selection phase
NextSelect ==
  \/ \E c \in Cols, o \in OverlapArgs : setOverlap(c, o) /\ UNCHANGED <<pc, cyc>>
  \/ \E t \in T, k \in ActivityArgs : findActiveColumns(t, k) /\ UNCHANGED <<pc, cyc>>

SpecSelect == InitUnwired /\ [][NextSelect]_vars

\* the three phases in the driver's order
NextCycle ==
  \/ \E t \in T, m \in MinOverlapArgs, k \in ActivityArgs : BeginTimestep(t, m, k)
  \/ PhaseOverlap
  \/ PhaseSelect
  \/ PhaseLearn

SpecCycle == (InitWired \/ InitUnwired) /\ [][NextCycle]_vars

\* every operation, callable in any order; the claims are checked under the
\* specifications above, each over the variables its operations touch
Next ==
  \/ NextSynapse
  \/ NextOverlap
  \/ NextSelect

Init == InitSynapse \/ InitWired \/ InitUnwired

Spec == Init /\ [][Next]_vars

\* =================================================================== claims
OwnerOf(s) == CHOOSE c \in Cols : s \in Range(synapses[c])

\* C1: every synapse's permanence stays within [0.0, 1.0] under incPerm,
\* decPerm and setPermanence with any argument.
C1_PermanenceInUnitRange ==
  \A s \in SynapseObjects : PermZero <= permanence[s] /\ permanence[s] <= PermOne

\* the sum of the input bits of timestep t read by the synapses syns whose
\* permanence is above CONNECTED_PERM
RECURSIVE RawOverlap(_, _)
RawOverlap(syns, t) ==
  IF syns = <<>>
    THEN 0
    ELSE (IF permanence[Head(syns)] > CONNECTED_PERM
            THEN input[t][inputIndex[Head(syns)]]
            ELSE 0) + RawOverlap(Tail(syns), t)

AllIndicesInRange(t) == \A s \in SynapseObjects : inputIndex[s] \in DOMAIN input[t]

\* C2: findOverlap(columns, t, minOverlap), on source indices inside the input
\* vector, returns, and then every column's overlap is 0.0 when its raw
\* overlap (the input bits read by its connected synapses) is below
\* minOverlap and raw * boost otherwise.
C2_OverlapAsSpecified ==
  (last.op = "findOverlap" /\ AllIndicesInRange(last.t)) =>
    /\ last.err = "none"
    /\ \A c \in Cols :
         LET raw == RawOverlap(synapses[c], last.t)
         IN overlap[c] = IF raw < last.k THEN 0 ELSE raw * boost[c]

\* v is the k-th largest of the overlaps ov of the columns S
IsKthLargest(ov, S, k, v) ==
  /\ \E d \in S : ov[d] = v
  /\ Cardinality({d \in S : ov[d] > v}) < k
  /\ Cardinality({d \in S : ov[d] >= v}) >= k

\* the neighbourhood a column competes in, the column itself included
Neighborhood(c) == getNeighbors(c) \cup {c}

ActiveAsSpecified(ov, k) ==
  {c \in Cols :
     /\ ov[c] > 0
     /\ \E d \in Neighborhood(c) :
          IsKthLargest(ov, Neighborhood(c), k, ov[d]) /\ ov[c] >= ov[d]}

\* C3: after findActiveColumns for timestep t, a column is in the active set
\* recorded for t iff its overlap is positive and at least the
\* desiredLocalActivity-th largest overlap of its neighbourhood (itself
\* included); columns tied at the threshold all win.
\* The overlaps <<5, 3, 3>> with desiredLocalActivity 2 make all three
\* columns active.
C3_ActiveIffAtLeastKth ==
  last.op = "findActiveColumns" =>
    /\ last.t \in DOMAIN ACTIVE_COLUMNS
    /\ Range(ACTIVE_COLUMNS[last.t]) = ActiveAsSpecified(overlap, last.k)
    /\ activeColumnsOf(<<5, 3, 3>>, 2) = <<1, 2, 3>>

\* more columns of one neighbourhood are active than desiredLocalActivity
C3_TieWitness ==
  /\ last.op = "findActiveColumns"
  /\ \E c \in Cols :
       Cardinality(Neighborhood(c) \cap Range(ACTIVE_COLUMNS[last.t])) > last.k
  /\ \E c \in Cols : overlap[c] > 0 /\ c \notin Range(ACTIVE_COLUMNS[last.t])

\* C4: learnAndInhibit(activeColumns, t) moves every synapse of an active
\* column to min(1.0, p + PERMANENCE_INC) when the synapse is active and to
\* max(0.0, p - PERMANENCE_DEC) when it is not, and leaves the synapses of the
\* other columns as they were.
C4_LearningRule ==
  [][last'.op = "learnAndInhibit" =>
       \A s \in SynapseObjects :
         permanence'[s] =
           IF OwnerOf(s) \in Range(last'.cols)
             THEN IF isactive[s]
                    THEN Min(PermOne, permanence[s] + PERMANENCE_INC)
                    ELSE Max(PermZero, permanence[s] - PERMANENCE_DEC)
             ELSE permanence[s]]_vars

\* learning has run on column 2 with one active synapse held at 1.0 and one
\* inactive synapse held at 0.0
C4_ClampWitness ==
  /\ last.op = "learnAndInhibit"
  /\ 2 \in Range(last.cols)
  /\ isactive[1] /\ permanence[1] = PermOne
  /\ ~isactive[2] /\ permanence[2] = PermZero

\* C5: ACTIVE_COLUMNS is append-only: an entry written for a timestep is never
\* overwritten or removed, also when findActiveColumns is called twice with
\* the same timestep.
C5_LogAppendOnly ==
  [][\A t \in DOMAIN ACTIVE_COLUMNS :
       t \in DOMAIN ACTIVE_COLUMNS' /\ ACTIVE_COLUMNS'[t] = ACTIVE_COLUMNS[t]]_vars

\* a synapse that was connected when the timestep began reads outside the
\* input vector of timestep t
ReadsOutOfRange(t) ==
  \E s \in SynapseObjects :
    cyc.perm0[s] > CONNECTED_PERM /\ inputIndex[s] \notin DOMAIN input[t]

PhaseOverlapDone ==
  \/ pc \in {"select", "learn", "aborted"}
  \/ pc = "idle" /\ cyc # NoCycle

C7_SelectionMonotonic ==
  last.op = "findActiveColumns" =>
    \A c \in Range(ACTIVE_COLUMNS[last.t]) :
      \A v \in (overlap[c] + 1)..(MaxOverlap + 1) :
        c \in Range(activeColumnsOf([overlap EXCEPT ![c] = v], last.k))

\* a selected column that sits exactly on its threshold and can be raised
C7_RaiseWitness ==
  /\ last.op = "findActiveColumns"
  /\ \E c \in Range(ACTIVE_COLUMNS[last.t]) :
       /\ overlap[c] < MaxOverlap
       /\ overlap[c] = kthScore(overlap, getNeighbors(c), last.k)
       /\ \E d \in getNeighbors(c) : overlap[d] > overlap[c]

\* C8: findOverlap is idempotent: run again with the same arguments right
\* after itself it leaves every overlap as the first run left it, and no run
\* changes a permanence or a boost.
C8_OverlapIdempotent ==
  [][last'.op = "findOverlap" =>
       /\ permanence' = permanence
       /\ boost' = boost
       /\ (last'.run = 2 => overlap' = overlap)]_vars

\* a second run: a boosted column without synapses was reset to 0.0, and a
\* column the runs did not reach still carries its overlap
C8_RerunWitness ==
  /\ last.op = "findOverlap" /\ last.run = 2
  /\ \E c \in Cols : boost[c] > 1 /\ synapses[c] = <<>> /\ overlap[c] = 0
  /\ \E c \in Cols : overlap[c] > 0

\* C9: when learning runs for timestep t, the active flag of every synapse it
\* reads equals the input bit of timestep t at the synapse's source index.
C9_FlagIsInputBit ==
  last.op = "learnAndInhibit" =>
    \A c \in Range(last.cols) : \A s \in Range(getSynapses(c)) :
      inputIndex[s] \in DOMAIN input[last.t] =>
        (isactive[s] <=> input[last.t][inputIndex[s]] = 1)

\* the synapse objects of column c whose permanence is above CONNECTED_PERM
ConnectedSynapseObjects(c) ==
  SelectSeq([i \in 1..Len(synapses[c]) |-> SynapseObject(synapses[c][i])],
            LAMBDA o : permanence[o.id] > CONNECTED_PERM)

\* C10: Column.getConnectedSynapses returns exactly the column's synapses
\* whose permanence is strictly above CONNECTED_PERM, as synapse objects.
C10_ConnectedAreFiltered ==
  \A c \in Cols : getConnectedSynapses(c) = ConnectedSynapseObjects(c)

====
